---- MODULE Spec2Model ----
(***************************************************************************)
(* Model of orion.core.io.experiment_branch_builder: the conflicts between *)
(* the space of a parent experiment and the space of its child, and the    *)
(* API that solves them (add / remove / rename / reset a dimension).       *)
(*                                                                         *)
(* A string is a sequence of one-character strings; a dimension name is    *)
(* stored with its leading "/" as the space builder produces it.           *)
(* A conflict object is identified by its index in self.conflicts: the     *)
(* operation lists hold references to the conflict objects, so they hold   *)
(* indices here.                                                           *)
(* A configuration is [name, user_args] and, for the child, branch: the    *)
(* value of its 'branch' key, "None" when the key is absent.  An argument  *)
(* is the string "--name~prior"; its prior, which the builder never looks  *)
(* into and which holds no "~", is one element of the sequence.            *)
(***************************************************************************)
EXTENDS Integers, Sequences, FiniteSets, TLC

VARIABLES experiment_config, conflicting_config, commandline_keywords,
          experiment_space, conflicting_space, conflicts, operations, pc, observed

vars == <<experiment_config, conflicting_config, commandline_keywords,
          experiment_space, conflicting_space, conflicts, operations, pc, observed>>

----------------------------------------------------------------------------
(* Bounds of the model *)

\* number of whitespace-separated tokens in the string given to add/remove/reset
MaxTokens == 2

\* number of arguments in the child's user_args given to the constructor
MaxArgs == 3

\* dimension names without the leading "/", in the order a space iterates them
NameOrder == << <<"a">>, <<"a", "b">>, <<"b">> >>

BareNames == {NameOrder[i] : i \in 1..Len(NameOrder)}

\* the prior specifications of tests/unittests/core/conftest.py; the builder
\* only ever compares them
Priors == {"uniform(-10,10)", "normal(0,2)"}

\* the sessions of Spec: the parent holds "ab" and may hold "b", each with the
\* first prior; the child holds "a" and may hold "ab", each with the second.
\* A session then starts with "a" new, "ab" missing or changed, and "b"
\* missing or without a conflict.
SessionParents ==
    {<<"absent", "uniform(-10,10)", p3>> : p3 \in {"absent", "uniform(-10,10)"}}

SessionChildren ==
    {<<"normal(0,2)", c2, "absent">> : c2 \in {"absent", "normal(0,2)"}}

----------------------------------------------------------------------------
(* Strings *)

Min(S) == CHOOSE x \in S : \A y \in S : x <= y

\* str.split(sep): the pieces between the separators, empty pieces included
RECURSIVE Split(_, _)
Split(s, sep) ==
    LET at == {i \in 1..Len(s) : s[i] = sep} IN
    IF at = {} THEN <<s>>
    ELSE LET i == Min(at)
         IN <<SubSeq(s, 1, i - 1)>> \o Split(SubSeq(s, i + 1, Len(s)), sep)

\* ' '.join(tokens): the strings a caller writes
RECURSIVE Join(_)
Join(ts) ==
    IF Len(ts) = 0 THEN <<>>
    ELSE IF Len(ts) = 1 THEN ts[1]
    ELSE ts[1] \o <<" ">> \o Join(Tail(ts))

\* str.startswith(prefix)
StartsWith(s, prefix) ==
    /\ Len(prefix) <= Len(s)
    /\ \A i \in 1..Len(prefix) : s[i] = prefix[i]

Contains(s, ch) == \E i \in 1..Len(s) : s[i] = ch

\* `sub in s` for two strings
HasSub(s, sub) ==
    \E i \in 1..(Len(s) - Len(sub) + 1) : SubSeq(s, i, i + Len(sub) - 1) = sub

\* str.replace(old, new): every occurrence of old, left to right
RECURSIVE Replace(_, _, _)
Replace(s, old, new) ==
    IF Len(s) < Len(old) THEN s
    ELSE IF SubSeq(s, 1, Len(old)) = old
    THEN new \o Replace(SubSeq(s, Len(old) + 1, Len(s)), old, new)
    ELSE <<s[1]>> \o Replace(Tail(s), old, new)

\* list.index(x): the first position of x, 0 when it raises ValueError
ListIndex(list, x) ==
    LET at == {j \in 1..Len(list) : list[j] = x}
    IN IF at = {} THEN 0 ELSE Min(at)

\* the characters of the class [a-zA-Z_] that names are written with
Letters == {"a", "b", "_"}

\* the end of the longest run of letters of s that starts at i
RunEnd(s, i) ==
    Min({e \in i..Len(s) : e = Len(s) \/ s[e + 1] \notin Letters})

\* the end of the longest run of "~" of s that starts at i
TildeEnd(s, i) ==
    Min({e \in i..Len(s) : e = Len(s) \/ s[e + 1] # "~"})

At(s, i, ch) == i <= Len(s) /\ s[i] = ch

\* re.compile(r'([a-zA-Z_]+)~+').findall(s), scanning from position p: a
\* match starts at the first letter whose run of letters is followed by "~"
\* and takes every "~" that follows; findall returns the runs of letters
RECURSIVE FindallAdd(_, _)
FindallAdd(s, p) ==
    LET starts == {i \in p..Len(s) : s[i] \in Letters /\ At(s, RunEnd(s, i) + 1, "~")}
    IN IF starts = {} THEN <<>>
       ELSE LET i == Min(starts)
                e == RunEnd(s, i)
            IN <<SubSeq(s, i, e)>> \o FindallAdd(s, TildeEnd(s, e + 1) + 1)

\* re.compile(r'([a-zA-Z_]+)~-').findall(s), scanning from position p
RECURSIVE FindallRemove(_, _)
FindallRemove(s, p) ==
    LET starts == {i \in p..Len(s) : /\ s[i] \in Letters
                                      /\ At(s, RunEnd(s, i) + 1, "~")
                                      /\ At(s, RunEnd(s, i) + 2, "-")}
    IN IF starts = {} THEN <<>>
       ELSE LET i == Min(starts)
                e == RunEnd(s, i)
            IN <<SubSeq(s, i, e)>> \o FindallRemove(s, e + 3)

\* re.compile(r'([a-zA-Z_]+)~>([a-zA-Z_]+)').findall(s), scanning from
\* position p: the pairs (first group, second group)
RECURSIVE FindallRename(_, _)
FindallRename(s, p) ==
    LET starts == {i \in p..Len(s) : /\ s[i] \in Letters
                                      /\ At(s, RunEnd(s, i) + 1, "~")
                                      /\ At(s, RunEnd(s, i) + 2, ">")
                                      /\ RunEnd(s, i) + 3 <= Len(s)
                                      /\ s[RunEnd(s, i) + 3] \in Letters}
    IN IF starts = {} THEN <<>>
       ELSE LET i == Min(starts)
                e == RunEnd(s, i)
                e2 == RunEnd(s, e + 3)
            IN << <<SubSeq(s, i, e), SubSeq(s, e + 3, e2)>> >>
               \o FindallRename(s, e2 + 1)

----------------------------------------------------------------------------
(* Spaces: an ordered mapping from a dimension's name to its descriptor *)

Dimension(bare, prior) == [name |-> <<"/">> \o bare, prior |-> prior]

RECURSIVE SpaceOf(_, _)
\* the space holding NameOrder[i] with prior f[i], for every i with f[i] # "absent"
SpaceOf(f, i) ==
    IF i > Len(NameOrder) THEN <<>>
    ELSE (IF f[i] = "absent" THEN <<>> ELSE <<Dimension(NameOrder[i], f[i])>>)
         \o SpaceOf(f, i + 1)

SpacesOver(priors) ==
    {SpaceOf(f, 1) : f \in [1..Len(NameOrder) -> priors \cup {"absent"}]}

\* `name in space`
SpaceHasName(space, name) == \E j \in 1..Len(space) : space[j].name = name

\* the argument that declares a dimension: "--name~prior"
ArgOf(bare, prior) == <<"-", "-">> \o bare \o <<"~", prior>>

\* the user_args that declare the dimensions of a space, in its order
ArgsOf(space) == [j \in 1..Len(space) |-> ArgOf(Tail(space[j].name), space[j].prior)]

\* an argument the space builder makes a dimension of
IsDimensionArg(arg) ==
    /\ Len(arg) >= 5
    /\ arg[1] = "-" /\ arg[2] = "-"
    /\ \A i \in 3..(Len(arg) - 2) : arg[i] \in Letters
    /\ arg[Len(arg) - 1] = "~"
    /\ arg[Len(arg)] \in Priors

\* SpaceBuilder().build_from(args): one dimension an argument, in the order
\* of the arguments.  [ok, space]; ok is FALSE on a list that is not the
\* declaration of a space (an argument that is no "--name~prior", a name
\* declared twice).
BuildFrom(args) ==
    IF /\ \A j \in 1..Len(args) : IsDimensionArg(args[j])
       /\ \A j, k \in 1..Len(args) :
              j # k => SubSeq(args[j], 3, Len(args[j]) - 2)
                         # SubSeq(args[k], 3, Len(args[k]) - 2)
    THEN [ok |-> TRUE,
          space |-> [j \in 1..Len(args) |->
                        Dimension(SubSeq(args[j], 3, Len(args[j]) - 2),
                                  args[j][Len(args[j])])]]
    ELSE [ok |-> FALSE, space |-> <<>>]

\* `dim in space.values()`
SpaceHasValue(space, dim) == \E j \in 1..Len(space) : space[j] = dim

----------------------------------------------------------------------------
(* The directives written in the child's user_args.  commandline_keywords  *)
(* is a dict: here the sequence of its items in insertion order, each      *)
(* [keyword |-> key, list |-> value].                                      *)

cl_keywords == << <<"~", "+">>, <<"~", "-">>, <<"~", ">">> >>

\* self.commandline_keywords as __init__ creates it
NoDirectives == [k \in 1..Len(cl_keywords) |-> [keyword |-> cl_keywords[k], list |-> <<>>]]

RECURSIVE InterpretKeywords(_, _, _)
\* the inner loop of _interpret_commandline for one arg, from the k-th keyword
\* on.  st is [ok, args, keywords, to_delete]; ok is FALSE when args.index
\* raised.
InterpretKeywords(st, arg, k) ==
    IF k > Len(cl_keywords) \/ ~st.ok THEN st
    ELSE LET keyword == cl_keywords[k] IN
         IF ~HasSub(arg, keyword) THEN InterpretKeywords(st, arg, k + 1)
         ELSE LET queued == [st.keywords EXCEPT ![k].list = Append(@, arg)]
                  index == ListIndex(st.args, arg)
              IN IF index = 0
                 THEN [st EXCEPT !.ok = FALSE, !.keywords = queued]
                 ELSE IF keyword = <<"~", "+">>
                 THEN InterpretKeywords(
                          [st EXCEPT !.keywords = queued,
                                     !.args[index] = Replace(arg, keyword, <<"~">>)],
                          arg, k + 1)
                 ELSE InterpretKeywords(
                          [st EXCEPT !.keywords = queued,
                                     !.to_delete = Append(@, index)],
                          arg, k + 1)

RECURSIVE InterpretArgs(_, _)
\* the loop `for arg in args` from the i-th position on: the loop reads the
\* list it rewrites, whose length does not change before the loop ends
InterpretArgs(st, i) ==
    IF i > Len(st.args) \/ ~st.ok THEN st
    ELSE InterpretArgs(InterpretKeywords(st, st.args[i], 1), i + 1)

RECURSIVE DeleteSorted(_, _)
\* `for i in sorted(to_delete, reverse=True): del args[i]`; positions that are
\* in to_delete twice are deleted at twice.  [ok, args]; ok is FALSE when a
\* position is past the end of what is left.
DeleteSorted(args, to_delete) ==
    IF to_delete = <<>> THEN [ok |-> TRUE, args |-> args]
    ELSE LET i == CHOOSE x \in {to_delete[j] : j \in 1..Len(to_delete)} :
                      \A j \in 1..Len(to_delete) : x >= to_delete[j]
             rest == LET j == Min({n \in 1..Len(to_delete) : to_delete[n] = i})
                     IN SubSeq(to_delete, 1, j - 1)
                        \o SubSeq(to_delete, j + 1, Len(to_delete))
         IN IF i > Len(args) THEN [ok |-> FALSE, args |-> args]
            ELSE DeleteSorted(SubSeq(args, 1, i - 1) \o SubSeq(args, i + 1, Len(args)),
                              rest)

\* _interpret_commandline on the child's user_args: [ok, args, keywords]
InterpretCommandline(args) ==
    LET st == InterpretArgs([ok |-> TRUE, args |-> args,
                             keywords |-> NoDirectives, to_delete |-> <<>>], 1)
        d == DeleteSorted(st.args, st.to_delete)
    IN IF ~st.ok THEN [ok |-> FALSE, args |-> st.args, keywords |-> st.keywords]
       ELSE [ok |-> d.ok, args |-> d.args, keywords |-> st.keywords]

----------------------------------------------------------------------------
(* Conflict detection *)

Conflict(status, dimension) ==
    [is_solved |-> FALSE, dimension |-> dimension, status |-> status]

RECURSIVE FindInChildByName(_, _, _)
\* FindInChild without the comparison of the descriptors
FindInChildByName(parent, child, i) ==
    IF i > Len(child) THEN <<>>
    ELSE LET dim == child[i]
             found == IF SpaceHasName(parent, dim.name)
                      THEN <<>>
                      ELSE <<Conflict("new", dim)>>
         IN found \o FindInChildByName(parent, child, i + 1)

RECURSIVE FindInChild(_, _, _)
\* first loop of _find_conflicts, over the child's dimensions from the i-th on
FindInChild(parent, child, i) ==
    IF i > Len(child) THEN <<>>
    ELSE LET dim == child[i]
             found == IF SpaceHasName(parent, dim.name)
                      THEN IF ~SpaceHasValue(parent, dim)
                           THEN <<Conflict("changed", dim)>>
                           ELSE <<>>
                      ELSE <<Conflict("new", dim)>>
         IN found \o FindInChild(parent, child, i + 1)

RECURSIVE FindInParent(_, _, _)
\* second loop of _find_conflicts, over the parent's dimensions from the i-th on
FindInParent(parent, child, i) ==
    IF i > Len(parent) THEN <<>>
    ELSE LET dim == parent[i]
             found == IF ~SpaceHasName(child, dim.name)
                      THEN <<Conflict("missing", dim)>>
                      ELSE <<>>
         IN found \o FindInParent(parent, child, i + 1)

FindConflicts(parent, child) ==
    FindInChild(parent, child, 1) \o FindInParent(parent, child, 1)

----------------------------------------------------------------------------
(* Helper functions of the builder.  `cs` is self.conflicts, `ops` is       *)
(* self.operations: a dict, here the sequence of its items in insertion    *)
(* order, each [name |-> key, list |-> value].                             *)

special_keywords ==
    [new |-> <<"~", "n", "e", "w">>,
     changed |-> <<"~", "c", "h", "a", "n", "g", "e", "d">>,
     missing |-> <<"~", "m", "i", "s", "s", "i", "n", "g">>]

AllStatus == {"missing", "new", "changed"}

\* _filter_conflicts_status: the indices of the conflicts whose status is in `status`
FilterConflictsStatus(cs, status) == {i \in 1..Len(cs) : cs[i].status \in status}

\* names of the conflicts of `idx` in the order of self.conflicts, "/" stripped
RECURSIVE NamesOf(_, _, _)
NamesOf(cs, idx, i) ==
    IF i > Len(cs) THEN <<>>
    ELSE (IF i \in idx THEN <<Tail(cs[i].dimension.name)>> ELSE <<>>)
         \o NamesOf(cs, idx, i + 1)

\* _extend_special_keywords: what it appends to names
ExtendSpecialKeywords(cs, arg) ==
    LET st == CHOOSE k \in DOMAIN special_keywords : special_keywords[k] = arg
    IN NamesOf(cs, FilterConflictsStatus(cs, {st}), 1)

\* _extend_wildcard without the test `c.status in status`
ExtendWildcardAnyStatus(cs, arg, status) ==
    LET prefix == <<"/">> \o Split(arg, "*")[1]
        hit == {i \in 1..Len(cs) : StartsWith(cs[i].dimension.name, prefix)}
    IN NamesOf(cs, hit, 1)

\* _extend_wildcard: what it appends to names
ExtendWildcard(cs, arg, status) ==
    LET prefix == <<"/">> \o Split(arg, "*")[1]
        hit == {i \in 1..Len(cs) : /\ StartsWith(cs[i].dimension.name, prefix)
                                   /\ cs[i].status \in status}
    IN NamesOf(cs, hit, 1)

RECURSIVE GetNamesLoopAppend(_, _, _, _, _)
\* the loop of _get_names with `names.append(arg)` for `names = [arg]`
GetNamesLoopAppend(cs, args, status, i, names) ==
    IF i > Len(args) THEN names
    ELSE LET arg == args[i] IN
         IF \E k \in DOMAIN special_keywords : special_keywords[k] = arg
         THEN GetNamesLoopAppend(cs, args, status, i + 1,
                                 names \o ExtendSpecialKeywords(cs, arg))
         ELSE IF Contains(arg, "*")
         THEN GetNamesLoopAppend(cs, args, status, i + 1,
                                 names \o ExtendWildcard(cs, arg, status))
         ELSE GetNamesLoopAppend(cs, args, status, i + 1, Append(names, arg))

RECURSIVE GetNamesLoop(_, _, _, _, _)
\* the loop of _get_names from the i-th token on, `names` being the list so far
GetNamesLoop(cs, args, status, i, names) ==
    IF i > Len(args) THEN names
    ELSE LET arg == args[i] IN
         IF \E k \in DOMAIN special_keywords : special_keywords[k] = arg
         THEN GetNamesLoop(cs, args, status, i + 1,
                           names \o ExtendSpecialKeywords(cs, arg))
         ELSE IF Contains(arg, "*")
         THEN GetNamesLoop(cs, args, status, i + 1,
                           names \o ExtendWildcard(cs, arg, status))
         ELSE GetNamesLoop(cs, args, status, i + 1, <<arg>>)

\* _get_names
GetNames(cs, name, status) == GetNamesLoop(cs, Split(name, " "), status, 1, <<>>)

\* _assert_has_status without the filter on the status
AssertHasStatusAnyStatus(cs, name, status) ==
    LET prefixed_name == <<"/">> \o name
        hit == {i \in 1..Len(cs) : cs[i].dimension.name = prefixed_name}
    IN IF hit = {} THEN 0 ELSE Min(hit)

\* _assert_has_status: the conflict object it finds (0 when list.index raises).
\* rename_dimension passes a str for status; `c.status in status` is then a
\* substring test, which no status passes for another status.
AssertHasStatus(cs, name, status) ==
    LET prefixed_name == <<"/">> \o name
        hit == {i \in FilterConflictsStatus(cs, status) :
                    cs[i].dimension.name = prefixed_name}
    IN IF hit = {} THEN 0 ELSE Min(hit)

\* _mark_as that puts a newly made Conflict in the place of the one it found
MarkAsRecreated(cs, name, status, is_solved) ==
    LET c == AssertHasStatus(cs, name, status)
    IN IF c = 0 THEN [ok |-> FALSE, conflicts |-> cs, conflict |-> 0]
       ELSE [ok |-> TRUE,
             conflicts |-> [cs EXCEPT ![c] = [Conflict("new", cs[c].dimension)
                                                 EXCEPT !.is_solved = is_solved]],
             conflict |-> c]

\* _mark_as: [ok, conflicts, conflict]
MarkAs(cs, name, status, is_solved) ==
    LET c == AssertHasStatus(cs, name, status)
    IN IF c = 0 THEN [ok |-> FALSE, conflicts |-> cs, conflict |-> 0]
       ELSE [ok |-> TRUE, conflicts |-> [cs EXCEPT ![c].is_solved = is_solved],
             conflict |-> c]

\* _mark_as_solved that sets the flag of every conflict of the given statuses
MarkAsSolvedAll(cs, name, status) ==
    LET m == MarkAs(cs, name, status, TRUE)
    IN [m EXCEPT !.conflicts =
            [i \in 1..Len(cs) |->
                IF m.ok /\ cs[i].status \in status
                THEN [cs[i] EXCEPT !.is_solved = TRUE] ELSE m.conflicts[i]]]

\* _mark_as_solved
MarkAsSolved(cs, name, status) == MarkAs(cs, name, status, TRUE)

HasKey(ops, operation_name) == \E k \in 1..Len(ops) : ops[k].name = operation_name

KeyIndex(ops, operation_name) ==
    CHOOSE k \in 1..Len(ops) : ops[k].name = operation_name

InList(list, x) == \E j \in 1..Len(list) : list[j] = x

\* _put_operation without the test `args not in self.operations[operation_name]`
PutOperationAgain(ops, operation_name, args) ==
    LET ops1 == IF ~HasKey(ops, operation_name)
                THEN Append(ops, [name |-> operation_name, list |-> <<>>])
                ELSE ops
        k == KeyIndex(ops1, operation_name)
    IN [ops1 EXCEPT ![k].list = Append(@, args)]

\* _put_operation
PutOperation(ops, operation_name, args) ==
    LET ops1 == IF ~HasKey(ops, operation_name)
                THEN Append(ops, [name |-> operation_name, list |-> <<>>])
                ELSE ops
        k == KeyIndex(ops1, operation_name)
    IN IF ~InList(ops1[k].list, args)
       THEN [ops1 EXCEPT ![k].list = Append(@, args)]
       ELSE ops1

\* list.remove(x): drops the first item equal to x
ListRemove(list, x) ==
    LET j == Min({n \in 1..Len(list) : list[n] = x})
    IN SubSeq(list, 1, j - 1) \o SubSeq(list, j + 1, Len(list))

RECURSIVE RemoveFromRenameListOnly(_, _, _, _)
\* the inner loop of _remove_from_operations that removes the pair and leaves
\* the flags of its two conflicts alone
RemoveFromRenameListOnly(cs, list, i, arg) ==
    IF i > Len(list) THEN [conflicts |-> cs, list |-> list]
    ELSE LET value == list[i] IN
         IF arg = value[1] \/ arg = value[2]
         THEN RemoveFromRenameListOnly(cs, ListRemove(list, value), i + 1, arg)
         ELSE RemoveFromRenameListOnly(cs, list, i + 1, arg)

RECURSIVE RemoveFromRename(_, _, _, _)
\* the inner loop of _remove_from_operations over the rename list: a Python
\* list iterator is a position, which steps on by one after the body whether
\* or not the body removed the item at that position.
\* [conflicts, list]
RemoveFromRename(cs, list, i, arg) ==
    IF i > Len(list) THEN [conflicts |-> cs, list |-> list]
    ELSE LET value == list[i] IN
         IF arg = value[1] \/ arg = value[2]
         THEN RemoveFromRename(
                  [cs EXCEPT ![value[1]].is_solved = FALSE,
                             ![value[2]].is_solved = FALSE],
                  ListRemove(list, value), i + 1, arg)
         ELSE RemoveFromRename(cs, list, i + 1, arg)

RECURSIVE RemoveFromOperationsLoop(_, _, _, _)
\* the outer loop of _remove_from_operations from the k-th key on
RemoveFromOperationsLoop(cs, ops, k, arg) ==
    IF k > Len(ops) THEN [conflicts |-> cs, operations |-> ops]
    ELSE IF ops[k].name = "rename"
    THEN LET r == RemoveFromRename(cs, ops[k].list, 1, arg)
         IN RemoveFromOperationsLoop(r.conflicts,
                                     [ops EXCEPT ![k].list = r.list], k + 1, arg)
    ELSE IF InList(ops[k].list, arg)
    THEN RemoveFromOperationsLoop([cs EXCEPT ![arg].is_solved = FALSE],
                                  [ops EXCEPT ![k].list = ListRemove(@, arg)],
                                  k + 1, arg)
    ELSE RemoveFromOperationsLoop(cs, ops, k + 1, arg)

\* _remove_from_operations that clears the flag and leaves the lists alone
RemoveFromOperationsFlagOnly(cs, ops, arg) ==
    [conflicts |-> [cs EXCEPT ![arg].is_solved = FALSE], operations |-> ops]

\* _remove_from_operations: [conflicts, operations]
RemoveFromOperations(cs, ops, arg) == RemoveFromOperationsLoop(cs, ops, 1, arg)

----------------------------------------------------------------------------
(* The API.  Each operator gives the outcome of one call on the builder:   *)
(* ok is FALSE when the call raises, and conflicts/operations are the      *)
(* builder's fields when the call returns or raises.                       *)

RECURSIVE DoBasicLoopSkipping(_, _, _, _, _, _)
\* the loop of _do_basic that passes over a name it does not find
DoBasicLoopSkipping(cs, ops, names, i, status, operation) ==
    IF i > Len(names) THEN [ok |-> TRUE, conflicts |-> cs, operations |-> ops]
    ELSE LET m == MarkAsSolved(cs, names[i], status) IN
         IF ~m.ok THEN DoBasicLoopSkipping(cs, ops, names, i + 1, status, operation)
         ELSE DoBasicLoopSkipping(m.conflicts, PutOperation(ops, operation, m.conflict),
                                  names, i + 1, status, operation)

RECURSIVE DoBasicLoop(_, _, _, _, _, _)
\* the loop of _do_basic from the i-th name on
DoBasicLoop(cs, ops, names, i, status, operation) ==
    IF i > Len(names) THEN [ok |-> TRUE, conflicts |-> cs, operations |-> ops]
    ELSE LET m == MarkAsSolved(cs, names[i], status) IN
         IF ~m.ok THEN [ok |-> FALSE, conflicts |-> cs, operations |-> ops]
         ELSE DoBasicLoop(m.conflicts, PutOperation(ops, operation, m.conflict),
                          names, i + 1, status, operation)

\* _do_basic
DoBasic(cs, ops, name, status, operation) ==
    DoBasicLoop(cs, ops, GetNames(cs, name, status), 1, status, operation)

\* add_dimension
AddDimension(cs, ops, args) == DoBasic(cs, ops, args, {"new", "changed"}, "add")

\* remove_dimension
RemoveDimension(cs, ops, name) == DoBasic(cs, ops, name, {"missing"}, "remove")

RECURSIVE ResetLoop(_, _, _, _, _)
\* the loop of reset_dimension from the i-th name on; the body looks up the
\* whole argument `arg`, not the name of the iteration
ResetLoop(cs, ops, names, i, arg) ==
    IF i > Len(names) THEN [ok |-> TRUE, conflicts |-> cs, operations |-> ops]
    ELSE LET m == MarkAs(cs, arg, AllStatus, FALSE) IN
         IF ~m.ok THEN [ok |-> FALSE, conflicts |-> cs, operations |-> ops]
         ELSE LET r == RemoveFromOperations(m.conflicts, ops, m.conflict)
              IN ResetLoop(r.conflicts, r.operations, names, i + 1, arg)

\* reset_dimension
ResetDimension(cs, ops, arg) ==
    ResetLoop(cs, ops, GetNames(cs, arg, AllStatus), 1, arg)

\* rename_dimension that logs the pair as (new, old)
RenameDimensionSwapped(cs, ops, args) ==
    LET old_conflict == AssertHasStatus(cs, args[1], {"missing"})
        new_conflict == AssertHasStatus(cs, args[2], {"new"})
    IN IF old_conflict = 0 \/ new_conflict = 0
       THEN [ok |-> FALSE, conflicts |-> cs, operations |-> ops]
       ELSE [ok |-> TRUE,
             conflicts |-> [cs EXCEPT ![old_conflict].is_solved = TRUE,
                                      ![new_conflict].is_solved = TRUE],
             operations |-> PutOperation(ops, "rename",
                                         <<new_conflict, old_conflict>>)]

\* rename_dimension, args = (old, new)
RenameDimension(cs, ops, args) ==
    LET old == args[1]
        new == args[2]
        old_conflict == AssertHasStatus(cs, old, {"missing"})
        new_conflict == AssertHasStatus(cs, new, {"new"})
    IN IF old_conflict = 0 \/ new_conflict = 0
       THEN [ok |-> FALSE, conflicts |-> cs, operations |-> ops]
       ELSE [ok |-> TRUE,
             conflicts |-> [cs EXCEPT ![old_conflict].is_solved = TRUE,
                                      ![new_conflict].is_solved = TRUE],
             operations |-> PutOperation(ops, "rename",
                                         <<old_conflict, new_conflict>>)]

\* get_dimension_conflict: the conflict object it returns (0 when list.index
\* raises)
GetDimensionConflict(cs, name) ==
    LET prefixed_name == <<"/">> \o name
        hit == {i \in 1..Len(cs) : cs[i].dimension.name = prefixed_name}
    IN IF hit = {} THEN 0 ELSE Min(hit)

\* change_experiment_name without the comparison with the parent's name
ChangeExperimentNameAlways(ec, cc, name) == [cc EXCEPT !.name = name]

\* change_experiment_name: the child's configuration after the call
ChangeExperimentName(ec, cc, name) ==
    IF name # ec.name THEN [cc EXCEPT !.name = name] ELSE cc

RECURSIVE CreateAdaptors(_, _)
\* create_adaptors: the local list `adaptors` when the loops end, one item
\* (the None that every _*_adaptor returns) for each entry of each list, from
\* the k-th operation on
CreateAdaptors(ops, k) ==
    IF k > Len(ops) THEN <<>>
    ELSE [j \in 1..Len(ops[k].list) |-> "None"] \o CreateAdaptors(ops, k + 1)

\* `self.cl_keywords_functions[keyword](*value)` with value what the
\* keyword's expression finds in the directive: the call raises TypeError
\* unless value holds exactly one item
ReplayDirective(cs, ops, k, dimension) ==
    LET value == IF k = 1 THEN FindallAdd(dimension, 1)
                 ELSE IF k = 2 THEN FindallRemove(dimension, 1)
                 ELSE FindallRename(dimension, 1)
    IN IF Len(value) # 1 THEN [ok |-> FALSE, conflicts |-> cs, operations |-> ops]
       ELSE IF k = 1 THEN AddDimension(cs, ops, value[1])
       ELSE IF k = 2 THEN RemoveDimension(cs, ops, value[1])
       ELSE RenameDimension(cs, ops, value[1])

RECURSIVE ReplayFirstOnly(_, _, _, _, _)
\* ReplayKeyword that replays the first directive of a keyword and no other
ReplayFirstOnly(cs, ops, keywords, k, j) ==
    IF k > Len(keywords) THEN [ok |-> TRUE, conflicts |-> cs, operations |-> ops]
    ELSE IF j > Len(keywords[k].list) \/ j > 1
    THEN ReplayFirstOnly(cs, ops, keywords, k + 1, 1)
    ELSE LET r == ReplayDirective(cs, ops, k, keywords[k].list[j]) IN
         IF ~r.ok THEN r
         ELSE ReplayFirstOnly(r.conflicts, r.operations, keywords, k, j + 1)

RECURSIVE ReplayKeyword(_, _, _, _, _)
\* the loops of _solve_commandline_conflicts from the j-th directive of the
\* k-th keyword on
ReplayKeyword(cs, ops, keywords, k, j) ==
    IF k > Len(keywords) THEN [ok |-> TRUE, conflicts |-> cs, operations |-> ops]
    ELSE IF j > Len(keywords[k].list)
    THEN ReplayKeyword(cs, ops, keywords, k + 1, 1)
    ELSE LET r == ReplayDirective(cs, ops, k, keywords[k].list[j]) IN
         IF ~r.ok THEN r
         ELSE ReplayKeyword(r.conflicts, r.operations, keywords, k, j + 1)

\* _solve_commandline_conflicts
SolveCommandlineConflicts(cs, ops, keywords) == ReplayKeyword(cs, ops, keywords, 1, 1)

----------------------------------------------------------------------------
(* What a caller passes *)

Wildcards == { <<"a", "*">> }

Keywords == {special_keywords[k] : k \in DOMAIN special_keywords}

Tokens == BareNames \cup Keywords \cup Wildcards

ArgStrings == {Join(ts) : ts \in UNION {[1..n -> Tokens] : n \in 1..MaxTokens}}

RenameArgs == BareNames \X BareNames

\* the name of both experiments in tests/unittests/core/conftest.py, and a
\* name for the branch
ExperimentNames == {"test", "branched"}

\* the configurations whose user_args declare the two spaces, with no
\* directive and no 'branch' key
ConfigOf(space) == [name |-> "test", user_args |-> ArgsOf(space)]

ChildConfigOf(space) == [name |-> "test", user_args |-> ArgsOf(space), branch |-> "None"]

----------------------------------------------------------------------------
(* The session: a builder after construction, and the calls made on it.   *)
(* pc is the constructor's position: "find_conflicts" when the spaces are  *)
(* built and _find_conflicts is about to run, "ready" when the constructor *)
(* has returned.  observed is the call SpecExpand watches: its argument,   *)
(* the list _get_names returned to it, and whether it returned (ok) or     *)
(* raised; the other specifications watch no call and leave it NoCall.     *)

NoCall == [op |-> "none", arg |-> <<>>, names |-> <<>>, ok |-> TRUE]

Init ==
    /\ experiment_space \in {SpaceOf(f, 1) : f \in SessionParents}
    /\ conflicting_space \in {SpaceOf(f, 1) : f \in SessionChildren}
    /\ experiment_config = ConfigOf(experiment_space)
    /\ conflicting_config = ChildConfigOf(conflicting_space)
    /\ commandline_keywords = NoDirectives
    /\ conflicts = FindConflicts(experiment_space, conflicting_space)
    /\ operations = <<>>
    /\ pc = "ready"
    /\ observed = NoCall

Call(r) ==
    /\ pc = "ready"
    /\ conflicts' = r.conflicts
    /\ operations' = r.operations
    /\ UNCHANGED <<experiment_config, conflicting_config, commandline_keywords,
                   experiment_space, conflicting_space, pc, observed>>

add_dimension ==
    \E args \in ArgStrings :
        \E r \in {AddDimension(conflicts, operations, args)} : Call(r)

remove_dimension ==
    \E name \in ArgStrings :
        \E r \in {RemoveDimension(conflicts, operations, name)} : Call(r)

reset_dimension ==
    \E arg \in ArgStrings :
        \E r \in {ResetDimension(conflicts, operations, arg)} : Call(r)

rename_dimension ==
    \E args \in RenameArgs :
        \E r \in {RenameDimension(conflicts, operations, args)} : Call(r)

Next == add_dimension \/ remove_dimension \/ reset_dimension \/ rename_dimension

Spec == Init /\ [][Next]_vars

----------------------------------------------------------------------------
(* The session of the fixtures of tests/unittests/core/conftest.py: one    *)
(* `new`, one `changed` and one `missing` conflict, and every call of the  *)
(* API section that changes or reads the builder's fields                  *)

InitSession ==
    /\ experiment_space = SpaceOf(<<"absent", "uniform(-10,10)", "uniform(-10,10)">>, 1)
    /\ conflicting_space = SpaceOf(<<"normal(0,2)", "normal(0,2)", "absent">>, 1)
    /\ experiment_config = ConfigOf(experiment_space)
    /\ conflicting_config = ChildConfigOf(conflicting_space)
    /\ commandline_keywords = NoDirectives
    /\ conflicts = FindConflicts(experiment_space, conflicting_space)
    /\ operations = <<>>
    /\ pc = "ready"
    /\ observed = NoCall

change_experiment_name ==
    /\ pc = "ready"
    /\ \E name \in ExperimentNames :
           conflicting_config' =
               ChangeExperimentName(experiment_config, conflicting_config, name)
    /\ UNCHANGED <<experiment_config, commandline_keywords, experiment_space,
                   conflicting_space, conflicts, operations, pc, observed>>

\* create_adaptors builds its list and returns; the builder is not changed
create_adaptors ==
    /\ pc = "ready"
    /\ \E adaptors \in {CreateAdaptors(operations, 1)} : UNCHANGED vars

NextSession ==
    \/ add_dimension
    \/ remove_dimension
    \/ reset_dimension
    \/ rename_dimension
    \/ change_experiment_name
    \/ create_adaptors

SpecSession == InitSession /\ [][NextSession]_vars

----------------------------------------------------------------------------
(* One watched call of add, remove or reset on a fresh builder, whose      *)
(* spaces give every name any of: no conflict, new, changed, missing       *)

InitExpand ==
    /\ experiment_space \in SpacesOver({"uniform(-10,10)"})
    /\ conflicting_space \in SpacesOver({"normal(0,2)"})
    /\ experiment_config = ConfigOf(experiment_space)
    /\ conflicting_config = ChildConfigOf(conflicting_space)
    /\ commandline_keywords = NoDirectives
    /\ conflicts = FindConflicts(experiment_space, conflicting_space)
    /\ operations = <<>>
    /\ pc = "ready"
    /\ observed = NoCall

Watched(op, arg, status, r) ==
    /\ conflicts' = r.conflicts
    /\ operations' = r.operations
    /\ observed' = [op |-> op, arg |-> arg,
                    names |-> GetNames(conflicts, arg, status), ok |-> r.ok]
    /\ UNCHANGED <<experiment_config, conflicting_config, commandline_keywords,
                   experiment_space, conflicting_space, pc>>

watched_add ==
    /\ pc = "ready" /\ observed = NoCall
    /\ \E args \in ArgStrings :
           \E r \in {AddDimension(conflicts, operations, args)} :
               Watched("add", args, {"new", "changed"}, r)

watched_remove ==
    /\ pc = "ready" /\ observed = NoCall
    /\ \E name \in ArgStrings :
           \E r \in {RemoveDimension(conflicts, operations, name)} :
               Watched("remove", name, {"missing"}, r)

watched_reset ==
    /\ pc = "ready" /\ observed = NoCall
    /\ \E arg \in ArgStrings :
           \E r \in {ResetDimension(conflicts, operations, arg)} :
               Watched("reset", arg, AllStatus, r)

NextExpand == watched_add \/ watched_remove \/ watched_reset

SpecExpand == InitExpand /\ [][NextExpand]_vars

----------------------------------------------------------------------------
(* The constructor from _find_conflicts on, over every pair of spaces, for *)
(* configurations with no directive and no 'branch' key                    *)

InitDetect ==
    /\ experiment_space \in SpacesOver(Priors)
    /\ conflicting_space \in SpacesOver(Priors)
    /\ experiment_config = ConfigOf(experiment_space)
    /\ conflicting_config = ChildConfigOf(conflicting_space)
    /\ commandline_keywords = NoDirectives
    /\ conflicts = <<>>
    /\ operations = <<>>
    /\ pc = "find_conflicts"
    /\ observed = NoCall

find_conflicts ==
    /\ pc = "find_conflicts"
    /\ conflicts' = conflicts \o FindConflicts(experiment_space, conflicting_space)
    /\ pc' = "solve_commandline_conflicts"
    /\ UNCHANGED <<experiment_config, conflicting_config, commandline_keywords,
                   experiment_space, conflicting_space, operations, observed>>

\* __init__, line 82: the directives are replayed on the builder
solve_commandline_conflicts ==
    /\ pc = "solve_commandline_conflicts"
    /\ \E r \in {SolveCommandlineConflicts(conflicts, operations, commandline_keywords)} :
           /\ conflicts' = r.conflicts
           /\ operations' = r.operations
           /\ pc' = IF r.ok THEN "branch" ELSE "raised in solve_commandline_conflicts"
    /\ UNCHANGED <<experiment_config, conflicting_config, commandline_keywords,
                   experiment_space, conflicting_space, observed>>

\* __init__, lines 84-86: the 'branch' key is popped and names the child
pop_branch ==
    /\ pc = "branch"
    /\ LET branching_name == conflicting_config.branch
           popped == [conflicting_config EXCEPT !.branch = "None"]
       IN conflicting_config' =
              IF branching_name # "None"
              THEN ChangeExperimentName(experiment_config, popped, branching_name)
              ELSE popped
    /\ pc' = "ready"
    /\ UNCHANGED <<experiment_config, commandline_keywords, experiment_space,
                   conflicting_space, conflicts, operations, observed>>

NextDetect == find_conflicts \/ solve_commandline_conflicts \/ pop_branch

SpecDetect == InitDetect /\ [][NextDetect]_vars

----------------------------------------------------------------------------
(* The whole constructor, on a child whose user_args carry directives, and *)
(* the calls of change_experiment_name on the builder it returns           *)

\* the arguments of the child: "a" declared, "a" and "ab" declared with the
\* append marker, "b" and "ab" with the drop marker, and the renames of "b"
\* and of "ab" to "a"
ChildArgs ==
    {ArgOf(<<"a">>, "normal(0,2)"),
     <<"-", "-", "a", "~", "+", "normal(0,2)">>,
     <<"-", "-", "a", "b", "~", "+", "normal(0,2)">>,
     <<"-", "-", "b", "~", "-">>,
     <<"-", "-", "a", "b", "~", "-">>,
     <<"-", "-", "b", "~", ">", "a">>,
     <<"-", "-", "a", "b", "~", ">", "a">>}

ChildArgLists == UNION {[1..n -> ChildArgs] : n \in 0..MaxArgs}

InitConstruct ==
    /\ experiment_config \in {ConfigOf(sp) : sp \in SpacesOver({"uniform(-10,10)"})}
    /\ conflicting_config \in
           {[name |-> "test", user_args |-> args, branch |-> b] :
                args \in ChildArgLists, b \in {"None"} \cup ExperimentNames}
    /\ commandline_keywords = NoDirectives
    /\ experiment_space = <<>>
    /\ conflicting_space = <<>>
    /\ conflicts = <<>>
    /\ operations = <<>>
    /\ pc = "interpret_commandline"
    /\ observed = NoCall

\* __init__, line 79
interpret_commandline ==
    /\ pc = "interpret_commandline"
    /\ \E r \in {InterpretCommandline(conflicting_config.user_args)} :
           /\ conflicting_config' = [conflicting_config EXCEPT !.user_args = r.args]
           /\ commandline_keywords' = r.keywords
           /\ pc' = IF r.ok THEN "build_spaces" ELSE "raised in interpret_commandline"
    /\ UNCHANGED <<experiment_config, experiment_space, conflicting_space,
                   conflicts, operations, observed>>

\* __init__, line 80
build_spaces ==
    /\ pc = "build_spaces"
    /\ \E e \in {BuildFrom(experiment_config.user_args)},
          c \in {BuildFrom(conflicting_config.user_args)} :
           /\ experiment_space' = e.space
           /\ conflicting_space' = IF e.ok THEN c.space ELSE <<>>
           /\ pc' = IF e.ok /\ c.ok THEN "find_conflicts" ELSE "raised in build_spaces"
    /\ UNCHANGED <<experiment_config, conflicting_config, commandline_keywords,
                   conflicts, operations, observed>>

NextConstruct ==
    \/ interpret_commandline
    \/ build_spaces
    \/ find_conflicts
    \/ solve_commandline_conflicts
    \/ pop_branch
    \/ change_experiment_name

SpecConstruct == InitConstruct /\ [][NextConstruct]_vars

----------------------------------------------------------------------------
(* Properties of conflict detection (SpecDetect) *)

AllNames == {<<"/">> \o b : b \in BareNames}

\* the descriptor `space[name]`
SpaceGet(space, name) ==
    space[CHOOSE j \in 1..Len(space) : space[j].name = name]

ConflictsNamed(name) == {i \in 1..Len(conflicts) : conflicts[i].dimension.name = name}

\* the statuses of the conflicts a name must have, given the two spaces
ExpectedStatus(name) ==
    LET inParent == SpaceHasName(experiment_space, name)
        inChild == SpaceHasName(conflicting_space, name)
    IN IF inChild /\ ~inParent THEN {"new"}
       ELSE IF inParent /\ ~inChild THEN {"missing"}
       ELSE IF inParent /\ inChild
               /\ SpaceGet(experiment_space, name) # SpaceGet(conflicting_space, name)
       THEN {"changed"}
       ELSE {}

\* C1: once detection has run, a name only in the child has exactly one
\* conflict and it is `new`, a name only in the parent exactly one and it is
\* `missing`, a name in both with unequal descriptors exactly one and it is
\* `changed`, a name in both with equal descriptors (or in neither) none; and
\* there is no conflict on any other name.
C1_Detection ==
    pc = "ready" =>
        /\ \A name \in AllNames :
               /\ Cardinality(ConflictsNamed(name)) = Cardinality(ExpectedStatus(name))
               /\ \A i \in ConflictsNamed(name) :
                      conflicts[i].status \in ExpectedStatus(name)
        /\ \A i \in 1..Len(conflicts) : conflicts[i].dimension.name \in AllNames

\* detection has run on spaces with a new, a changed and a missing dimension
C1_Witness ==
    /\ pc = "ready"
    /\ Len(conflicts) = 3
    /\ \A st \in AllStatus : \E i \in 1..Len(conflicts) : conflicts[i].status = st

----------------------------------------------------------------------------
(* Properties of the sessions (Spec).  A property of a call is stated on    *)
(* every reachable state of the builder and every argument of the call:    *)
(* the actions of Spec are these same operators applied to the state.      *)

\* self.operations.get(name, [])
ListOf(ops, name) == IF HasKey(ops, name) THEN ops[KeyIndex(ops, name)].list ELSE <<>>

Count(list, x) == Cardinality({j \in 1..Len(list) : list[j] = x})

\* the rename pairs that hold conflict c
PairsWith(ops, c) ==
    {j \in 1..Len(ListOf(ops, "rename")) :
        ListOf(ops, "rename")[j][1] = c \/ ListOf(ops, "rename")[j][2] = c}

\* the conflicts of the given statuses on the dimension called `bare`
Named(cs, bare, status) ==
    {i \in 1..Len(cs) : cs[i].status \in status
                         /\ cs[i].dimension.name = <<"/">> \o bare}

\* the builder as the constructor leaves it
Fresh == [ok |-> TRUE,
          conflicts |-> FindConflicts(experiment_space, conflicting_space),
          operations |-> <<>>]

\* the builder is as the outcome r of a call left it (the lists are compared
\* key by key: the entries of two lists are alike only under the same key)
StateIs(r) ==
    /\ conflicts = r.conflicts
    /\ Len(operations) = Len(r.operations)
    /\ \A k \in 1..Len(operations) :
           /\ operations[k].name = r.operations[k].name
           /\ operations[k].list = r.operations[k].list

\* C2: rename_dimension((old, new)) succeeds only if old names an unsolved
\* `missing` conflict and new names an unsolved `new` conflict.
C2_RenameOnlyUnsolved ==
    \A args \in RenameArgs :
        RenameDimension(conflicts, operations, args).ok =>
            /\ \E i \in Named(conflicts, args[1], {"missing"}) : ~conflicts[i].is_solved
            /\ \E i \in Named(conflicts, args[2], {"new"}) : ~conflicts[i].is_solved

\* C3: a conflict appears at most once across the whole operation log.
C3_AtMostOnceInLog ==
    \A c \in 1..Len(conflicts) :
        Count(ListOf(operations, "add"), c) + Count(ListOf(operations, "remove"), c)
            + Cardinality(PairsWith(operations, c)) <= 1

\* a call that raised left the builder as it was
Unchanged(r) == ~r.ok => StateIs(r)

\* C4: a failing add, remove, rename or reset leaves every is_solved flag and
\* every list of the operation log as they were before the call.
C4_FailureChangesNothing ==
    /\ \A arg \in ArgStrings :
           /\ Unchanged(AddDimension(conflicts, operations, arg))
           /\ Unchanged(RemoveDimension(conflicts, operations, arg))
           /\ Unchanged(ResetDimension(conflicts, operations, arg))
    /\ \A args \in RenameArgs : Unchanged(RenameDimension(conflicts, operations, args))

\* the second of two equal calls changes nothing, and the conflict is listed once
Idempotent(r1, r2, x, status, operation) ==
    r1.ok =>
        /\ r2.ok
        /\ r2.conflicts = r1.conflicts
        /\ r2.operations = r1.operations
        /\ \A c \in Named(conflicts, x, status) :
               Count(ListOf(r2.operations, operation), c) = 1

\* C5: add_dimension(x) called twice for a `new` or `changed` x leaves one entry
\* for x in the add list and the state of a single call; likewise
\* remove_dimension for a `missing` x and the remove list.
C5_AddIdempotent ==
    \A x \in BareNames :
        /\ LET r1 == AddDimension(conflicts, operations, x)
               r2 == AddDimension(r1.conflicts, r1.operations, x)
           IN Idempotent(r1, r2, x, {"new", "changed"}, "add")
        /\ LET r1 == RemoveDimension(conflicts, operations, x)
               r2 == RemoveDimension(r1.conflicts, r1.operations, x)
           IN Idempotent(r1, r2, x, {"missing"}, "remove")

\* add_dimension("a") has been called twice on a builder that had removed "b"
C5_Witness ==
    LET r0 == RemoveDimension(Fresh.conflicts, Fresh.operations, <<"b">>)
        r1 == AddDimension(r0.conflicts, r0.operations, <<"a">>)
        r2 == AddDimension(r1.conflicts, r1.operations, <<"a">>)
    IN /\ r0.ok /\ r1.ok /\ r2.ok
       /\ StateIs(r2)
       /\ \E c \in Named(conflicts, <<"a">>, {"new"}) :
              conflicts[c].is_solved /\ ListOf(operations, "add") = <<c>>

NotInLog(ops, c) ==
    /\ Count(ListOf(ops, "add"), c) = 0
    /\ Count(ListOf(ops, "remove"), c) = 0
    /\ PairsWith(ops, c) = {}

SameLists(ops1, ops2) ==
    \A name \in {"add", "remove", "rename"} : ListOf(ops1, name) = ListOf(ops2, name)

\* C6: from a state where the `new` or `changed` conflict of x is unsolved and
\* absent from the log, add_dimension(x) then reset_dimension(x) returns every
\* is_solved flag and every operation list to their values before the add.
C6_AddResetRoundTrip ==
    \A x \in BareNames :
        \A c \in Named(conflicts, x, {"new", "changed"}) :
            (~conflicts[c].is_solved /\ NotInLog(operations, c)) =>
                LET r1 == AddDimension(conflicts, operations, x)
                    r2 == ResetDimension(r1.conflicts, r1.operations, x)
                IN /\ r1.ok
                   /\ r1.conflicts[c].is_solved
                   /\ Count(ListOf(r1.operations, "add"), c) = 1
                   /\ r2.ok
                   /\ r2.conflicts = conflicts
                   /\ SameLists(r2.operations, operations)

\* "a" has been added and reset on a builder that had removed "b"
C6_Witness ==
    LET r0 == RemoveDimension(Fresh.conflicts, Fresh.operations, <<"b">>)
        r1 == AddDimension(r0.conflicts, r0.operations, <<"a">>)
        r2 == ResetDimension(r1.conflicts, r1.operations, <<"a">>)
    IN /\ r0.ok /\ r1.ok /\ r2.ok
       /\ StateIs(r2)
       /\ HasKey(operations, "add") /\ ListOf(operations, "add") = <<>>
       /\ Len(ListOf(operations, "remove")) = 1
       /\ \A c \in Named(conflicts, <<"a">>, AllStatus) : ~conflicts[c].is_solved

\* C7: a successful rename_dimension((old, new)) leaves the `missing` conflict
\* of old and the `new` conflict of new solved and the pair (old, new), in
\* that order, exactly once in the rename list; it changes no other conflict
\* and no other list.
C7_RenameEffect ==
    \A args \in RenameArgs :
        LET r == RenameDimension(conflicts, operations, args) IN
        r.ok =>
            \E o \in Named(conflicts, args[1], {"missing"}),
               n \in Named(conflicts, args[2], {"new"}) :
                /\ r.conflicts[o] = [conflicts[o] EXCEPT !.is_solved = TRUE]
                /\ r.conflicts[n] = [conflicts[n] EXCEPT !.is_solved = TRUE]
                /\ Count(ListOf(r.operations, "rename"), <<o, n>>) = 1
                /\ Len(r.conflicts) = Len(conflicts)
                /\ \A i \in 1..Len(conflicts) :
                       i \notin {o, n} => r.conflicts[i] = conflicts[i]
                /\ ListOf(r.operations, "add") = ListOf(operations, "add")
                /\ ListOf(r.operations, "remove") = ListOf(operations, "remove")

\* "ab" has been renamed to "a" on a builder that had removed "b"
C7_Witness ==
    LET r0 == RemoveDimension(Fresh.conflicts, Fresh.operations, <<"b">>)
        r == RenameDimension(r0.conflicts, r0.operations, <<<<"a", "b">>, <<"a">>>>)
    IN /\ r0.ok /\ r.ok
       /\ StateIs(r)
       /\ Len(ListOf(operations, "rename")) = 1
       /\ \A i \in 1..Len(conflicts) : conflicts[i].is_solved

\* C8: when the pair (old, new) is in the rename list, reset_dimension on
\* either name alone removes the pair and unsolves both of its conflicts.
C8_ResetUndoesRename ==
    \A j \in 1..Len(ListOf(operations, "rename")) :
        LET pair == ListOf(operations, "rename")[j] IN
        \A side \in {1, 2} :
            LET r == ResetDimension(conflicts, operations,
                                    Tail(conflicts[pair[side]].dimension.name))
            IN /\ r.ok
               /\ Count(ListOf(r.operations, "rename"), pair) = 0
               /\ ~r.conflicts[pair[1]].is_solved
               /\ ~r.conflicts[pair[2]].is_solved

\* the literal prefixes a wildcard is written with
Prefixes == {<<>>, <<"a">>, <<"a", "b">>, <<"b">>}

\* where conflict c stands in the log
Membership(ops, c) ==
    [add |-> Count(ListOf(ops, "add"), c),
     remove |-> Count(ListOf(ops, "remove"), c),
     rename |-> {ListOf(ops, "rename")[j] : j \in PairsWith(ops, c)}]

\* the call with outcome r solved and listed the conflicts of the given
\* statuses whose name starts with prefix, and touched no other conflict
WildcardScoped(r, prefix, status, operation) ==
    /\ r.ok
    /\ Len(r.conflicts) = Len(conflicts)
    /\ \A i \in 1..Len(conflicts) :
           IF /\ StartsWith(conflicts[i].dimension.name, <<"/">> \o prefix)
              /\ conflicts[i].status \in status
           THEN /\ r.conflicts[i].is_solved
                /\ Count(ListOf(r.operations, operation), i) = 1
           ELSE /\ r.conflicts[i] = conflicts[i]
                /\ Membership(r.operations, i) = Membership(operations, i)

\* C9: add_dimension("prefix*") solves and lists in add exactly the `new` and
\* `changed` conflicts whose name starts with prefix; every other conflict
\* keeps its flag and its place in the log.  Likewise remove_dimension with
\* the `missing` conflicts and the remove list.
C9_WildcardScoping ==
    \A prefix \in Prefixes :
        /\ WildcardScoped(AddDimension(conflicts, operations, prefix \o <<"*">>),
                          prefix, {"new", "changed"}, "add")
        /\ WildcardScoped(RemoveDimension(conflicts, operations, prefix \o <<"*">>),
                          prefix, {"missing"}, "remove")

\* add_dimension("a*") has run on a fresh builder with "a" new and "ab" and
\* "b" missing: "a" is solved, "ab" (same prefix, missing) and "b" are not
C9_Witness ==
    LET r == AddDimension(Fresh.conflicts, Fresh.operations, <<"a", "*">>)
    IN /\ r.ok
       /\ StateIs(r)
       /\ \E c \in Named(conflicts, <<"a">>, {"new"}) :
              conflicts[c].is_solved /\ ListOf(operations, "add") = <<c>>
       /\ \E c \in Named(conflicts, <<"a", "b">>, {"missing"}) : ~conflicts[c].is_solved
       /\ \E c \in Named(conflicts, <<"b">>, {"missing"}) : ~conflicts[c].is_solved

----------------------------------------------------------------------------
(* Properties of the expansion of names (SpecExpand) *)

SetOf(seq) == {seq[i] : i \in 1..Len(seq)}

Max(S) == CHOOSE x \in S : \A y \in S : x >= y

\* the status set the watched operation passes to _get_names
StatusOf(op) ==
    IF op = "add" THEN {"new", "changed"}
    ELSE IF op = "remove" THEN {"missing"}
    ELSE AllStatus

\* the watched call is an add or a remove whose string has two or more tokens
MultiTokenBasic ==
    /\ observed.op \in {"add", "remove"}
    /\ Len(Split(observed.arg, " ")) >= 2

\* the names of the conflicts the builder holds solved, "/" stripped
Resolved == {Tail(conflicts[i].dimension.name) :
                 i \in {j \in 1..Len(conflicts) : conflicts[j].is_solved}}

IsLiteral(tok) == tok \notin Keywords /\ ~Contains(tok, "*")

\* the position of the last literal token, 1 when there is none
FromToken(toks) ==
    LET lit == {i \in 1..Len(toks) : IsLiteral(toks[i])}
    IN IF lit = {} THEN 1 ELSE Max(lit)

RECURSIVE EachAlone(_, _, _, _)
\* what the tokens from the i-th on resolve, each taken alone, in order
EachAlone(cs, toks, i, status) ==
    IF i > Len(toks) THEN <<>>
    ELSE GetNames(cs, toks[i], status) \o EachAlone(cs, toks, i + 1, status)

----------------------------------------------------------------------------
(* Invariants of the operation log (Spec) *)

\* C11: the add list holds only `new` or `changed` conflicts, the remove list
\* only `missing` conflicts, and every entry of the rename list is a pair of
\* a `missing` conflict and a `new` conflict, in that order.
C11_LogTyping ==
    /\ \A j \in 1..Len(ListOf(operations, "add")) :
           conflicts[ListOf(operations, "add")[j]].status \in {"new", "changed"}
    /\ \A j \in 1..Len(ListOf(operations, "remove")) :
           conflicts[ListOf(operations, "remove")[j]].status = "missing"
    /\ \A j \in 1..Len(ListOf(operations, "rename")) :
           LET value == ListOf(operations, "rename")[j]
           IN /\ Len(value) = 2
              /\ conflicts[value[1]].status = "missing"
              /\ conflicts[value[2]].status = "new"

\* the three lists are in use at once: "ab" is added (changed), "b" removed
\* and also renamed to "a"
C11_Witness ==
    /\ \E c \in Named(conflicts, <<"a", "b">>, {"changed"}) :
           ListOf(operations, "add") = <<c>>
    /\ \E o \in Named(conflicts, <<"b">>, {"missing"}),
          n \in Named(conflicts, <<"a">>, {"new"}) :
           /\ ListOf(operations, "remove") = <<o>>
           /\ ListOf(operations, "rename") = << <<o, n>> >>

----------------------------------------------------------------------------
(* Properties of the constructor (SpecConstruct) *)

\* the directives queued under the k-th keyword
Directives(k) == commandline_keywords[k].list

\* the name a directive is written on: what stands between "--" and "~"
DirectiveName(arg) == SubSeq(arg, 3, Min({i \in 1..Len(arg) : arg[i] = "~"}) - 1)

\* the name a rename directive renames to: what stands after ">"
DirectiveTarget(arg) ==
    SubSeq(arg, Min({i \in 1..Len(arg) : arg[i] = ">"}) + 1, Len(arg))

\* every queued directive names a conflict that detection found: an append
\* directive a `new` or `changed` one, a drop directive a `missing` one, a
\* rename directive a `missing` one and a `new` one
DirectivesNameConflicts ==
    /\ \A j \in 1..Len(Directives(1)) :
           Named(conflicts, DirectiveName(Directives(1)[j]), {"new", "changed"}) # {}
    /\ \A j \in 1..Len(Directives(2)) :
           Named(conflicts, DirectiveName(Directives(2)[j]), {"missing"}) # {}
    /\ \A j \in 1..Len(Directives(3)) :
           /\ Named(conflicts, DirectiveName(Directives(3)[j]), {"missing"}) # {}
           /\ Named(conflicts, DirectiveTarget(Directives(3)[j]), {"new"}) # {}

\* every queued directive has been replayed
DirectivesReplayed ==
    /\ \A j \in 1..Len(Directives(1)) :
           \E c \in Named(conflicts, DirectiveName(Directives(1)[j]), {"new", "changed"}) :
               conflicts[c].is_solved /\ Count(ListOf(operations, "add"), c) = 1
    /\ \A j \in 1..Len(Directives(2)) :
           \E c \in Named(conflicts, DirectiveName(Directives(2)[j]), {"missing"}) :
               conflicts[c].is_solved /\ Count(ListOf(operations, "remove"), c) = 1
    /\ \A j \in 1..Len(Directives(3)) :
           \E o \in Named(conflicts, DirectiveName(Directives(3)[j]), {"missing"}),
              n \in Named(conflicts, DirectiveTarget(Directives(3)[j]), {"new"}) :
               /\ conflicts[o].is_solved /\ conflicts[n].is_solved
               /\ Count(ListOf(operations, "rename"), <<o, n>>) = 1

\* the steps of the constructor, in order
Steps == <<"interpret_commandline", "build_spaces", "find_conflicts",
           "solve_commandline_conflicts", "branch", "ready">>

\* the constructor is at the i-th step or has raised in it
AtStep(i) == pc = Steps[i] \/ (i < 5 /\ pc = "raised in " \o Steps[i])

Carries(arg, k) == HasSub(arg, cl_keywords[k])

\* arg without the "+" of its append marker
Stripped(arg) ==
    LET i == Min({n \in 1..(Len(arg) - 1) : arg[n] = "~" /\ arg[n + 1] = "+"})
    IN SubSeq(arg, 1, i) \o SubSeq(arg, i + 2, Len(arg))

RECURSIVE Parsed(_)
\* the list the parser is to leave: the unmarked arguments as they are, the
\* appended ones stripped, the dropped and renamed ones left out
Parsed(args) ==
    IF args = <<>> THEN <<>>
    ELSE (IF Carries(args[1], 2) \/ Carries(args[1], 3) THEN <<>>
          ELSE IF Carries(args[1], 1) THEN <<Stripped(args[1])>>
          ELSE <<args[1]>>)
         \o Parsed(Tail(args))

RECURSIVE Marked(_, _)
\* the arguments that carry the k-th marker, in order
Marked(args, k) ==
    IF args = <<>> THEN <<>>
    ELSE (IF Carries(args[1], k) THEN <<args[1]>> ELSE <<>>) \o Marked(Tail(args), k)

\* C13: _interpret_commandline leaves every unmarked argument in place and
\* in order, every appended argument at its position without its marker,
\* no dropped or renamed argument, and queues one directive for each marked
\* argument.
C13_Parsing ==
    [][pc = "interpret_commandline" =>
           /\ pc' = "build_spaces"
           /\ conflicting_config'.user_args = Parsed(conflicting_config.user_args)
           /\ \A k \in 1..Len(cl_keywords) :
                  commandline_keywords'[k].list = Marked(conflicting_config.user_args, k)
      ]_vars

----------------------------------------------------------------------------
(* Properties of the session of the fixtures (SpecSession) *)

\* C14: whatever calls of add, remove, rename, reset, change_experiment_name
\* and create_adaptors were made, returning or raising, the conflicts are
\* those that detection found, each with its status and its dimension.
C14_ConflictsFrozen ==
    LET found == FindConflicts(experiment_space, conflicting_space)
    IN /\ Len(conflicts) = Len(found)
       /\ \A i \in 1..Len(found) :
              /\ conflicts[i].status = found[i].status
              /\ conflicts[i].dimension = found[i].dimension

\* the child has been named, add_dimension("~new ~missing") has raised after
\* solving "a", and reset_dimension("a") has been called on what it left
C14_Witness ==
    LET r1 == AddDimension(Fresh.conflicts, Fresh.operations,
                           Join(<<special_keywords.new, special_keywords.missing>>))
        r2 == ResetDimension(r1.conflicts, r1.operations, <<"a">>)
    IN /\ ~r1.ok /\ r1.operations # <<>>
       /\ r2.ok
       /\ StateIs(r2)
       /\ conflicting_config.name = "branched"

----------------------------------------------------------------------------
(* Properties of single calls (Spec) *)

\* the call with outcome r set the flag of conflict c, listed c under
\* `operation` unless it was listed, and changed nothing else
OnlySolved(r, c, operation) ==
    /\ r.ok
    /\ r.conflicts = [conflicts EXCEPT ![c].is_solved = TRUE]
    /\ ListOf(r.operations, operation) =
           IF InList(ListOf(operations, operation), c)
           THEN ListOf(operations, operation)
           ELSE Append(ListOf(operations, operation), c)
    /\ \A name \in {"add", "remove", "rename"} \ {operation} :
           ListOf(r.operations, name) = ListOf(operations, name)

\* C15: add_dimension(x) for a literal `new` or `changed` x changes x's flag
\* and the add list and nothing else; remove_dimension(y) for a literal
\* `missing` y changes y's flag and the remove list and nothing else; and on
\* a fresh builder with one `new`, one `changed` and one `missing` conflict,
\* add(new) then remove(missing) ends with add = [new], remove = [missing],
\* no rename entry and the `changed` conflict unsolved.
C15_SingleNameFrame ==
    /\ \A x \in BareNames :
           /\ \A c \in Named(conflicts, x, {"new", "changed"}) :
                  OnlySolved(AddDimension(conflicts, operations, x), c, "add")
           /\ \A c \in Named(conflicts, x, {"missing"}) :
                  OnlySolved(RemoveDimension(conflicts, operations, x), c, "remove")
    /\ \A n \in FilterConflictsStatus(Fresh.conflicts, {"new"}),
          g \in FilterConflictsStatus(Fresh.conflicts, {"changed"}),
          m \in FilterConflictsStatus(Fresh.conflicts, {"missing"}) :
           LET r1 == AddDimension(Fresh.conflicts, Fresh.operations,
                                  Tail(Fresh.conflicts[n].dimension.name))
               r2 == RemoveDimension(r1.conflicts, r1.operations,
                                     Tail(Fresh.conflicts[m].dimension.name))
           IN /\ r1.ok /\ r2.ok
              /\ ListOf(r2.operations, "add") = <<n>>
              /\ ListOf(r2.operations, "remove") = <<m>>
              /\ ListOf(r2.operations, "rename") = <<>>
              /\ r2.conflicts[n].is_solved /\ r2.conflicts[m].is_solved
              /\ ~r2.conflicts[g].is_solved

\* add_dimension("a") then remove_dimension("b") have run on a fresh builder
\* with "a" new, "ab" changed and "b" missing
C15_Witness ==
    LET r1 == AddDimension(Fresh.conflicts, Fresh.operations, <<"a">>)
        r2 == RemoveDimension(r1.conflicts, r1.operations, <<"b">>)
    IN /\ r1.ok /\ r2.ok
       /\ StateIs(r2)
       /\ \E g \in Named(conflicts, <<"a", "b">>, {"changed"}) : ~conflicts[g].is_solved
       /\ Len(ListOf(operations, "add")) = 1 /\ Len(ListOf(operations, "remove")) = 1

\* C16: a lookup that finds nothing raises: add_dimension of a literal name
\* with no `new` or `changed` conflict, remove_dimension of one with no
\* `missing` conflict, rename_dimension when old has no `missing` conflict or
\* new has no `new` conflict, reset_dimension of a literal name with no
\* conflict, and get_dimension_conflict of a name with no conflict.
C16_LookupFailuresRaise ==
    /\ \A x \in BareNames :
           /\ Named(conflicts, x, {"new", "changed"}) = {} =>
                  ~AddDimension(conflicts, operations, x).ok
           /\ Named(conflicts, x, {"missing"}) = {} =>
                  ~RemoveDimension(conflicts, operations, x).ok
           /\ Named(conflicts, x, AllStatus) = {} =>
                  /\ ~ResetDimension(conflicts, operations, x).ok
                  /\ GetDimensionConflict(conflicts, x) = 0
    /\ \A args \in RenameArgs :
           (\/ Named(conflicts, args[1], {"missing"}) = {}
            \/ Named(conflicts, args[2], {"new"}) = {}) =>
               ~RenameDimension(conflicts, operations, args).ok

\* "a" has been added on a builder where "b" has no conflict and "ab" is
\* missing: each of the calls of C16 on "b" raises, and so does add on "ab"
C16_Witness ==
    LET r == AddDimension(Fresh.conflicts, Fresh.operations, <<"a">>)
    IN /\ r.ok
       /\ StateIs(r)
       /\ Named(conflicts, <<"b">>, AllStatus) = {}
       /\ Named(conflicts, <<"a", "b">>, {"missing"}) # {}
       /\ ~AddDimension(conflicts, operations, <<"a", "b">>).ok
       /\ ~AddDimension(conflicts, operations, <<"b">>).ok
       /\ ~RemoveDimension(conflicts, operations, <<"b">>).ok
       /\ ~ResetDimension(conflicts, operations, <<"b">>).ok
       /\ ~RenameDimension(conflicts, operations, <<<<"b">>, <<"a">>>>).ok
       /\ GetDimensionConflict(conflicts, <<"b">>) = 0

\* C18: after a successful reset_dimension(x), the conflict of x is unsolved
\* and is in no list of the log, neither alone nor in a rename pair.
C18_ResetClearsLog ==
    \A x \in BareNames :
        LET r == ResetDimension(conflicts, operations, x) IN
        r.ok =>
            \A c \in Named(conflicts, x, AllStatus) :
                ~r.conflicts[c].is_solved /\ NotInLog(r.operations, c)

\* the conflicts a keyword or a wildcard stands for, over the three statuses
Matched(arg) ==
    IF arg \in Keywords
    THEN {i \in 1..Len(conflicts) : special_keywords[conflicts[i].status] = arg}
    ELSE {i \in 1..Len(conflicts) :
              StartsWith(conflicts[i].dimension.name,
                         <<"/">> \o SubSeq(arg, 1, Len(arg) - 1))}

\* C19: reset_dimension of a status keyword or of "prefix*" returns, and
\* leaves every conflict the argument stands for unsolved and out of the log.
C19_ResetExpands ==
    \A arg \in Keywords \cup {prefix \o <<"*">> : prefix \in Prefixes} :
        LET r == ResetDimension(conflicts, operations, arg)
        IN /\ r.ok
           /\ \A c \in Matched(arg) :
                  ~r.conflicts[c].is_solved /\ NotInLog(r.operations, c)

----------------------------------------------------------------------------
(* More properties of the expansion of names (SpecExpand) *)

\* C20: the names a status keyword expands to, in add_dimension or
\* remove_dimension, are names of conflicts whose status the operation
\* allows.
C20_KeywordScoped ==
    (observed.op \in {"add", "remove"} /\ observed.arg \in Keywords) =>
        \A j \in 1..Len(observed.names) :
            Named(conflicts, observed.names[j], StatusOf(observed.op)) # {}

----------------------------------------------------------------------------
(* Properties of the child's name (SpecConstruct) *)

\* the name change_experiment_name(name) is to leave the child with
NameAfter(name) ==
    IF name # experiment_config.name THEN name ELSE conflicting_config.name

\* C17: change_experiment_name(n) leaves the child named n when n is not the
\* parent's name, and named as it was when it is; the constructor does the
\* same with the value of the 'branch' key; neither changes the conflicts or
\* the operation log.
C17_NameRule ==
    [][/\ pc = "ready" =>
              /\ \A n \in ExperimentNames :
                     ChangeExperimentName(experiment_config, conflicting_config, n).name
                         = NameAfter(n)
              /\ \E n \in ExperimentNames : conflicting_config'.name = NameAfter(n)
              /\ conflicts' = conflicts /\ operations' = operations
       /\ pc = "branch" =>
              /\ conflicting_config'.name =
                     IF conflicting_config.branch = "None"
                     THEN conflicting_config.name
                     ELSE NameAfter(conflicting_config.branch)
              /\ conflicts' = conflicts /\ operations' = operations
      ]_vars

\* the child has been named "branched" on a builder whose constructor
\* replayed a directive; change_experiment_name("test") leaves the name
C17_Witness ==
    /\ pc = "ready"
    /\ conflicting_config.name = "branched"
    /\ operations # <<>>
    /\ ChangeExperimentName(experiment_config, conflicting_config, "test").name
           = "branched"

----------------------------------------------------------------------------
(* The flags against the log (Spec) *)

\* C21: every conflict that is in the operation log (in add, in remove, or as
\* either half of a rename pair) has is_solved = TRUE.
C21_LogImpliesSolved ==
    \A c \in 1..Len(conflicts) :
        ~NotInLog(operations, c) => conflicts[c].is_solved

\* C22: every conflict with is_solved = TRUE is in at least one list of the
\* operation log.
C22_SolvedImpliesLogged ==
    \A c \in 1..Len(conflicts) :
        conflicts[c].is_solved => ~NotInLog(operations, c)

\* "b" has been removed, "ab" renamed to "a" and "a" reset: the pair is gone
\* and both its conflicts are unsolved, "b" is solved and in the remove list
C22_Witness ==
    LET r0 == RemoveDimension(Fresh.conflicts, Fresh.operations, <<"b">>)
        r1 == RenameDimension(r0.conflicts, r0.operations, <<<<"a", "b">>, <<"a">>>>)
        r2 == ResetDimension(r1.conflicts, r1.operations, <<"a">>)
    IN /\ r0.ok /\ r1.ok /\ r2.ok
       /\ StateIs(r2)
       /\ ListOf(operations, "rename") = <<>>
       /\ \A c \in Named(conflicts, <<"a">>, AllStatus)
                   \cup Named(conflicts, <<"a", "b">>, AllStatus) :
              ~conflicts[c].is_solved /\ NotInLog(operations, c)
       /\ \E c \in Named(conflicts, <<"b">>, {"missing"}) :
              conflicts[c].is_solved /\ ListOf(operations, "remove") = <<c>>

====
